---- MODULE Spec2Model ----
(***************************************************************************)
(* A model of rs-wineventlog's monitoring pipeline (src/src/eventlog.rs,   *)
(* src/src/xml.rs, src/src/privilege.rs, src/src/output.rs): the           *)
(* orchestrator `monitor`, one `monitor_channel` thread per resolved       *)
(* channel, the XML -> JSON transcoder, the metadata enrichment and the    *)
(* mutex-guarded output.                                                   *)
(*                                                                         *)
(* Strings are sequences of atoms.  Channel names and patterns are         *)
(* sequences of characters (so that glob matching works on characters);    *)
(* XML names, attribute values and texts are sequences of tokens, where    *)
(* the token " " stands for white space (so that trim() does something).   *)
(***************************************************************************)
EXTENDS Integers, Sequences, FiniteSets, TLC

\* ------------------------------------------------------------------ bounds

\* Total number of events the OS delivers to the subscriptions of one run.
MaxEvents == 3

\* Longest pattern list of the resolution specification.
MaxPatterns == 2

\* Number of events of the burst on the single channel of the burst
\* specification.
MaxBurst == 11

\* The size of the array handed to EvtNext (eventlog.rs:136).
EventsSize == 10

\* ----------------------------------------------------------------- strings

None == [kind |-> "none", v |-> <<>>]

Some(x) == [kind |-> "some", v |-> x]

App == <<"A", "p", "p">>
System == <<"S", "y", "s", "t", "e", "m">>
Security == <<"S", "e", "c", "u", "r", "i", "t", "y">>
SysMonOperational ==
    <<"S", "y", "s", "M", "o", "n", "/", "O", "p", "e", "r", "a", "t", "i", "o", "n", "a", "l">>
Nope == <<"N", "o", "p", "e">>
SysStar == <<"S", "y", "s", "*">>
SQuestStem == <<"S", "?", "s", "t", "e", "m">>
StarSlashStar == <<"*", "/", "*">>
SeStar == <<"S", "e", "*">>
ZStar == <<"Z", "*">>

Contains(seq, x) == \E i \in DOMAIN seq : seq[i] = x

Range(seq) == {seq[i] : i \in DOMAIN seq}

NoDuplicates(seq) == \A i, j \in DOMAIN seq : i # j => seq[i] # seq[j]

\* std::path::is_separator on Windows, which the glob-match crate uses.
is_separator(c) == c \in {"/", "\\"}

\* glob_match::glob_match (crate glob-match) on patterns made of literal
\* characters, '?' and single '*': '?' matches one character that is not a
\* path separator, '*' matches any run of characters that holds no path
\* separator.  (Only '**' crosses separators; no pattern here uses it, nor
\* the crate's [...] {...} ! and \ syntax.)
RECURSIVE glob_from(_, _, _, _)
glob_from(glob, gi, path, pi) ==
    IF gi > Len(glob) THEN pi > Len(path)
    ELSE IF glob[gi] = "*"
         THEN \/ glob_from(glob, gi + 1, path, pi)
              \/ /\ pi <= Len(path)
                 /\ ~is_separator(path[pi])
                 /\ glob_from(glob, gi, path, pi + 1)
    ELSE IF glob[gi] = "?"
         THEN /\ pi <= Len(path)
              /\ ~is_separator(path[pi])
              /\ glob_from(glob, gi + 1, path, pi + 1)
    ELSE /\ pi <= Len(path)
         /\ path[pi] = glob[gi]
         /\ glob_from(glob, gi + 1, path, pi + 1)

glob_match(glob, path) == glob_from(glob, 1, path, 1)

\* pattern.contains('*') || pattern.contains('?')
is_glob(pattern) == Contains(pattern, "*") \/ Contains(pattern, "?")

\* One iteration of monitor's loop over the patterns: what the pattern adds
\* to valid_channels.
resolve_pattern_nocheck(pattern, avail) ==
    IF is_glob(pattern)
    THEN SelectSeq(avail, LAMBDA ch : glob_match(pattern, ch))
    ELSE <<pattern>>

resolve_pattern(pattern, avail) ==
    IF is_glob(pattern)
    THEN SelectSeq(avail, LAMBDA ch : glob_match(pattern, ch))
    ELSE IF Contains(avail, pattern) THEN <<pattern>> ELSE <<>>

\* ------------------------------------------------------- XML and JSON trees

\* A roxmltree element: tag name, attributes in document order, element
\* children in document order, and the text of its first text child.
El(tag, attrs, kids, text) ==
    [tag |-> tag, attrs |-> attrs, kids |-> kids, text |-> text]

Attr(name, value) == [name |-> name, value |-> value]

\* serde_json::Value: String, Object, Array.
JStr(s) == [kind |-> "str", v |-> s]
JObj(m) == [kind |-> "obj", v |-> m]
JArr(a) == [kind |-> "arr", v |-> a]

EmptyMap == [k \in {} |-> None]

\* Map::insert: the new value replaces an older one under the same key.
MapInsert(m, k, x) == [q \in DOMAIN m \cup {k} |-> IF q = k THEN x ELSE m[q]]

\* Value::get(key): Some(value) on an object that has the key.
JGet(val, k) ==
    IF val.kind = "obj" /\ k \in DOMAIN val.v THEN Some(val.v[k]) ELSE None

\* str::trim
RECURSIVE trim_start(_)
trim_start(s) ==
    IF s # <<>> /\ Head(s) = " " THEN trim_start(Tail(s)) ELSE s

RECURSIVE trim_end(_)
trim_end(s) ==
    IF s # <<>> /\ s[Len(s)] = " "
    THEN trim_end(SubSeq(s, 1, Len(s) - 1))
    ELSE s

trim(s) == trim_end(trim_start(s))

\* The transcoder that wraps every child in an array.
RECURSIVE element_to_json_arrays(_)
element_to_json_arrays(node) ==
    LET attrKeys == {<<"@">> \o node.attrs[i].name : i \in DOMAIN node.attrs}
        lastAttr(k) ==
            CHOOSE i \in DOMAIN node.attrs :
                /\ <<"@">> \o node.attrs[i].name = k
                /\ \A j \in DOMAIN node.attrs :
                       <<"@">> \o node.attrs[j].name = k => j <= i
        tags == {node.kids[i].tag : i \in DOMAIN node.kids}
        group(t) == SelectSeq(node.kids, LAMBDA c : c.tag = t)
        children(t) == [i \in 1..Len(group(t)) |-> element_to_json_arrays(group(t)[i])]
        map == [k \in attrKeys \cup tags |->
                   IF k \in tags
                   THEN JArr(children(k))
                   ELSE JStr(node.attrs[lastAttr(k)].value)]
        text == trim(node.text)
    IN  IF Len(node.kids) = 0 /\ text # <<>> THEN JStr(text) ELSE JObj(map)

\* The transcoder that does not trim the text.
RECURSIVE element_to_json_untrimmed(_)
element_to_json_untrimmed(node) ==
    LET attrKeys == {<<"@">> \o node.attrs[i].name : i \in DOMAIN node.attrs}
        lastAttr(k) ==
            CHOOSE i \in DOMAIN node.attrs :
                /\ <<"@">> \o node.attrs[i].name = k
                /\ \A j \in DOMAIN node.attrs :
                       <<"@">> \o node.attrs[j].name = k => j <= i
        tags == {node.kids[i].tag : i \in DOMAIN node.kids}
        group(t) == SelectSeq(node.kids, LAMBDA c : c.tag = t)
        children(t) == [i \in 1..Len(group(t)) |-> element_to_json_untrimmed(group(t)[i])]
        map == [k \in attrKeys \cup tags |->
                   IF k \in tags
                   THEN IF Len(children(k)) = 1
                        THEN children(k)[1]
                        ELSE JArr(children(k))
                   ELSE JStr(node.attrs[lastAttr(k)].value)]
        text == node.text
    IN  IF Len(node.kids) = 0 /\ text # <<>> THEN JStr(text) ELSE JObj(map)

\* xml::element_to_json
RECURSIVE element_to_json(_)
element_to_json(node) ==
    LET attrKeys == {<<"@">> \o node.attrs[i].name : i \in DOMAIN node.attrs}
        lastAttr(k) ==
            CHOOSE i \in DOMAIN node.attrs :
                /\ <<"@">> \o node.attrs[i].name = k
                /\ \A j \in DOMAIN node.attrs :
                       <<"@">> \o node.attrs[j].name = k => j <= i
        tags == {node.kids[i].tag : i \in DOMAIN node.kids}
        group(t) == SelectSeq(node.kids, LAMBDA c : c.tag = t)
        children(t) == [i \in 1..Len(group(t)) |-> element_to_json(group(t)[i])]
        map == [k \in attrKeys \cup tags |->
                   IF k \in tags
                   THEN IF Len(children(k)) = 1
                        THEN children(k)[1]
                        ELSE JArr(children(k))
                   ELSE JStr(node.attrs[lastAttr(k)].value)]
        text == trim(node.text)
    IN  IF Len(node.kids) = 0 /\ text # <<>> THEN JStr(text) ELSE JObj(map)

\* xml::parse_to_json on a rendered document markup: the document does not
\* parse (ok = FALSE), or it parses to the tree `root`.
parse_to_json_root(markup) ==
    IF ~markup.ok THEN None ELSE Some(element_to_json(markup.root))

parse_to_json(markup) ==
    IF ~markup.ok THEN None
    ELSE LET root == IF Len(markup.root.kids) > 0
                     THEN markup.root.kids[1]
                     ELSE markup.root
         IN  Some(element_to_json(root))

\* ---------------------------------------------------------------- enrichment

\* What EvtFormatMessage answers for one event and one format kind: the
\* buffer size reported by the sizing call, whether the second call
\* succeeds, and the text up to the terminating NUL.
FmtOutcome(size, ok, text) == [size |-> size, ok |-> ok, text |-> text]

FmtFails == FmtOutcome(0, FALSE, <<>>)

FmtText(text) == FmtOutcome(Len(text) + 1, TRUE, text)

\* eventlog::format_message
format_message(event, key) ==
    LET o == event.fmt[key]
    IN  IF o.size = 0 THEN None
        ELSE IF o.ok THEN Some(o.text) ELSE None

EnrichKeys == << <<"Keywords">>, <<"Level">>, <<"Task">>, <<"Opcode">> >>

\* The enrichment that does not look whether the key is present.
RECURSIVE enrich_from_insert(_, _, _)
enrich_from_insert(event, json, i) ==
    IF i > Len(EnrichKeys) THEN json
    ELSE LET key == EnrichKeys[i]
             s == format_message(event, key)
             next == IF s.kind = "some"
                     THEN JObj(MapInsert(json.v, key, JStr(s.v)))
                     ELSE json
         IN  enrich_from_insert(event, next, i + 1)

\* eventlog::enrich_metadata
RECURSIVE enrich_from(_, _, _)
enrich_from(event, json, i) ==
    IF i > Len(EnrichKeys) THEN json
    ELSE LET key == EnrichKeys[i]
             s == format_message(event, key)
             next == IF key \in DOMAIN json.v /\ s.kind = "some"
                     THEN JObj(MapInsert(json.v, key, JStr(s.v)))
                     ELSE json
         IN  enrich_from(event, next, i + 1)

enrich_metadata(event, json) ==
    IF json.kind = "obj" THEN enrich_from(event, json, 1) ELSE json

\* eventlog::format_event_message
format_event_message(event, provider_name) ==
    IF ~event.metaOk THEN None
    ELSE LET o == event.msg
         IN  IF o.size = 0 THEN None
             ELSE IF o.ok THEN Some(o.text) ELSE None

\* serde_json::to_string / to_string_pretty: the text of a value, compact or
\* indented.
to_json_text(val, pretty) == [pretty |-> pretty, value |-> val]

\* render_event: v.get("Provider").and_then(|p| p.get("@Name"))
\*                .and_then(|n| n.as_str())
provider_name(v) ==
    LET provider == JGet(v, <<"Provider">>)
        name == IF provider.kind = "some"
                THEN JGet(provider.v, <<"@", "Name">>)
                ELSE None
    IN  IF name.kind = "some" /\ name.v.kind = "str" THEN Some(name.v.v) ELSE None

\* The insertion of "Message" that does not look at the provider name.
add_message_always(event, prov, v) ==
    LET msg == format_event_message(event, <<>>)
    IN  IF msg.kind = "some" /\ v.kind = "obj"
        THEN JObj(MapInsert(v.v, <<"Message">>, JStr(msg.v)))
        ELSE v

\* render_event: the insertion of "Message" into the enriched value v, for
\* the provider name prov found before the enrichment.
add_message(event, prov, v) ==
    LET msg == IF prov.kind = "some"
               THEN format_event_message(event, prov.v)
               ELSE None
    IN  IF msg.kind = "some" /\ v.kind = "obj"
        THEN JObj(MapInsert(v.v, <<"Message">>, JStr(msg.v)))
        ELSE v

\* eventlog::render_event
render_event(event, pretty) ==
    IF ~event.renderOk THEN None
    ELSE LET parsed == parse_to_json(event.markup)
         IN  IF parsed.kind = "none" THEN None
             ELSE LET prov == provider_name(parsed.v)
                      enriched == enrich_metadata(event, parsed.v)
                      final == add_message(event, prov, enriched)
                  IN  Some(to_json_text(final, pretty))

\* ----------------------------------------------------------------- events

ProviderX == El(<<"Provider">>, <<Attr(<<"Name">>, <<"X">>)>>, <<>>, <<>>)

LevelEl(l) == El(<<"Level">>, <<>>, <<>>, <<l>>)

\* <Event><Provider Name="X"/><Level>l</Level></Event>
FlatDoc(l) == El(<<"Event">>, <<>>, <<ProviderX, LevelEl(l)>>, <<>>)

\* <Event><System><Provider Name="X"/><Level>l</Level></System></Event>
SystemDoc(l) ==
    El(<<"Event">>, <<>>,
       <<El(<<"System">>, <<>>, <<ProviderX, LevelEl(l)>>, <<>>)>>, <<>>)

\* The OS's level formatter: 4 is "Information", 2 is "Warning".
LevelName(l) == IF l = "4" THEN <<"Information">> ELSE <<"Warning">>

FmtFor(l) ==
    [k \in Range(EnrichKeys) |->
        IF k = <<"Level">> THEN FmtText(LevelName(l)) ELSE FmtFails]

EventTypes == {"Flat4", "Flat2", "Sys4", "Sys2", "NoRender", "BadXml"}

\* What the OS answers for an event of each type: whether EvtRender
\* succeeds, the markup, the field formatter, the publisher metadata and the
\* event message.
EventSpec(ty) ==
    LET l == IF ty \in {"Flat4", "Sys4", "NoRender"} THEN "4" ELSE "2"
    IN  [renderOk |-> ty # "NoRender",
         markup |-> [ok |-> ty # "BadXml",
                     root |-> IF ty \in {"Flat4", "Flat2"} THEN FlatDoc(l)
                              ELSE SystemDoc(l)],
         fmt |-> FmtFor(l),
         metaOk |-> ty \in {"Sys4", "Flat4"},
         msg |-> IF ty \in {"Sys4", "Flat4"} THEN FmtText(<<"started">>) ELSE FmtFails]

\* ------------------------------------------------------------------- state

VARIABLES
    live,            \* the channel names the OS enumerates
    channels,        \* monitor's argument: the configured patterns
    pretty,          \* monitor's argument
    stream,          \* the types of the events the OS will log, in order
    mpc,             \* monitor: "enum", "resolve", "spawn", "join", "ret"
    mi,              \* monitor: index of the loop it is in
    available,       \* monitor: result of get_available_channels
    valid_channels,  \* monitor: the resolved channels
    warned,          \* indices of the patterns monitor warned about
    mres,            \* monitor's result: "none", "ok", "err_enum", "err_novalid"
    wpc,             \* per worker: position in monitor_channel
    wres,            \* per worker: monitor_channel's result: "none", "ok", "err"
    signal,          \* per worker: the wait event: "none", "set", "reset"
    sub,             \* per worker: the subscription: "none", "open"
    subres,          \* per worker: what EvtSubscribe answered
    subtries,        \* per worker: number of EvtSubscribe calls
    queue,           \* per worker: events the OS holds for the subscription
    arrived,         \* per worker: number of events that arrived
    delivered,       \* per worker: events EvtNext returned, in order
    batch,           \* per worker: the events array of the current EvtNext
    bi,              \* per worker: index into the batch
    json,            \* per worker: render_event's result for events[bi]
    open_events,     \* per worker: event handles returned and not closed
    errlog,          \* per worker: the error! lines about it
    mutex,           \* the worker holding the output mutex, or 0
    sink,            \* what the output received: chunks in order
    sinkOpen,        \* whether the destination accepts writes
    relaunches,      \* the outcomes of the calls of try_elevate, in order
    exited,          \* <<>> while the process runs, else <<its exit status>>
    limit,           \* the number of events the OS logs in this run
    requests,        \* per worker: the arguments of the EvtNext calls it made
    returned,        \* per worker: the count its last EvtNext call returned
    closed,          \* per worker: the event handles passed to EvtClose, in order
    revent,          \* render_event alone: what the OS answers for its event
    rstage,          \* render_event alone: "off", "event", "parsed", "enriched", "done"
    rparsed,         \* render_event alone: parse_to_json's result
    rvalue           \* render_event alone: the value after the last stage

mvars == <<live, channels, pretty, stream, limit, mpc, mi, available, valid_channels, warned, mres>>

wvars == <<wpc, wres, signal, sub, subres, subtries, queue, arrived, delivered,
           batch, bi, json, open_events, errlog, requests, returned, closed>>

rvars == <<revent, rstage, rparsed, rvalue>>

ovars == <<mutex, sink, sinkOpen, relaunches, exited>>

vars == <<mvars, wvars, ovars, rvars>>

Workers == DOMAIN wpc

Running == exited = <<>>

TotalArrived ==
    LET RECURSIVE sum(_)
        sum(n) == IF n = 0 THEN 0 ELSE arrived[n] + sum(n - 1)
    IN  sum(Len(arrived))

Min(a, b) == IF a < b THEN a ELSE b

\* The pattern lists of length at most n over the set pats.
RECURSIVE ListsUpTo(_, _)
ListsUpTo(pats, n) ==
    IF n = 0 THEN {<<>>}
    ELSE LET shorter == ListsUpTo(pats, n - 1)
         IN  shorter \cup {Append(l, p) : l \in shorter, p \in pats}

\* The program before monitor's first statement.
InitProgram ==
    /\ mpc = "enum"
    /\ mi = 0
    /\ available = <<>>
    /\ valid_channels = <<>>
    /\ warned = {}
    /\ mres = "none"
    /\ wpc = <<>>
    /\ wres = <<>>
    /\ signal = <<>>
    /\ sub = <<>>
    /\ subres = <<>>
    /\ subtries = <<>>
    /\ queue = <<>>
    /\ arrived = <<>>
    /\ delivered = <<>>
    /\ batch = <<>>
    /\ bi = <<>>
    /\ json = <<>>
    /\ open_events = <<>>
    /\ errlog = <<>>
    /\ mutex = 0
    /\ sink = <<>>
    /\ sinkOpen = TRUE
    /\ relaunches = <<>>
    /\ exited = <<>>
    /\ requests = <<>>
    /\ returned = <<>>
    /\ closed = <<>>

\* render_event is not run on its own.
RenderOff ==
    /\ revent = None
    /\ rstage = "off"
    /\ rparsed = None
    /\ rvalue = None

InitWith(lives, runs, streams) ==
    /\ live \in lives
    /\ \E run \in runs : channels = run[1] /\ pretty = run[2]
    /\ stream \in streams
    /\ limit = MaxEvents
    /\ InitProgram
    /\ RenderOff

\* ----------------------------------------------------------------- monitor

\* let available = get_available_channels()?;
MonitorEnum ==
    /\ Running /\ mpc = "enum"
    /\ \/ /\ available' = live
          /\ mpc' = "resolve"
          /\ mi' = 1
          /\ mres' = mres
       \/ /\ available' = available
          /\ mpc' = "ret"
          /\ mi' = mi
          /\ mres' = "err_enum"
    /\ UNCHANGED <<rvars, live, channels, pretty, stream, limit, valid_channels,
                   warned, wvars, ovars>>

\* One iteration of: for pattern in channels { ... }
MonitorResolve ==
    /\ Running /\ mpc = "resolve" /\ mi <= Len(channels)
    /\ LET found == resolve_pattern(channels[mi], available)
       IN  /\ valid_channels' = valid_channels \o found
           /\ warned' = IF found = <<>> THEN warned \cup {mi} ELSE warned
    /\ mi' = mi + 1
    /\ UNCHANGED <<rvars, live, channels, pretty, stream, limit, mpc, available,
                   mres, wvars, ovars>>

\* if valid_channels.is_empty() { return Err(..) }; the output is wrapped and
\* the spawn loop is entered.
check_empty_never(valid) == FALSE

check_empty(valid) == valid = <<>>

MonitorCheck ==
    /\ Running /\ mpc = "resolve" /\ mi > Len(channels)
    /\ IF check_empty(valid_channels)
       THEN /\ mpc' = "ret"
            /\ mres' = "err_novalid"
            /\ mi' = mi
            /\ UNCHANGED wvars
       ELSE LET ws == 1..Len(valid_channels)
            IN  /\ mpc' = IF ws = {} THEN "join" ELSE "spawn"
                /\ mres' = mres
                /\ mi' = 1
                /\ wpc' = [w \in ws |-> "none"]
                /\ wres' = [w \in ws |-> "none"]
                /\ signal' = [w \in ws |-> "none"]
                /\ sub' = [w \in ws |-> "none"]
                /\ subres' = [w \in ws |-> "none"]
                /\ subtries' = [w \in ws |-> 0]
                /\ queue' = [w \in ws |-> <<>>]
                /\ arrived' = [w \in ws |-> 0]
                /\ delivered' = [w \in ws |-> <<>>]
                /\ batch' = [w \in ws |-> <<>>]
                /\ bi' = [w \in ws |-> 0]
                /\ json' = [w \in ws |-> None]
                /\ open_events' = [w \in ws |-> {}]
                /\ errlog' = [w \in ws |-> {}]
                /\ requests' = [w \in ws |-> {}]
                /\ returned' = [w \in ws |-> 0]
                /\ closed' = [w \in ws |-> <<>>]
    /\ UNCHANGED <<rvars, live, channels, pretty, stream, limit, available,
                   valid_channels, warned, ovars>>

\* One iteration of: for ch in valid_channels { thread::spawn(..) }
MonitorSpawn ==
    /\ Running /\ mpc = "spawn" /\ mi <= Len(valid_channels)
    /\ wpc' = [wpc EXCEPT ![mi] = "start"]
    /\ mi' = IF mi = Len(valid_channels) THEN 1 ELSE mi + 1
    /\ mpc' = IF mi = Len(valid_channels) THEN "join" ELSE "spawn"
    /\ UNCHANGED <<rvars, live, channels, pretty, stream, limit, available,
                   valid_channels, warned, mres, wres, signal, sub, subres,
                   subtries, queue, arrived, delivered, batch, bi, json,
                   open_events, errlog, requests, returned, closed, ovars>>

joined_at_once(w) == TRUE

\* handle.join() returns: the thread of worker w ended.
joined(w) == wpc[w] = "done"

\* monitor's result after the join loop, the workers' results being res.
join_result_propagate(res) ==
    IF \E w \in DOMAIN res : res[w] = "err" THEN "err_worker" ELSE "ok"

join_result(res) == "ok"

\* One iteration of: for handle in handles { handle.join() }, and Ok(())
\* after the last.
MonitorJoin ==
    /\ Running /\ mpc = "join"
    /\ IF mi <= Len(valid_channels)
       THEN /\ joined(mi)
            /\ mi' = mi + 1
            /\ UNCHANGED <<mpc, mres>>
       ELSE /\ mpc' = "ret"
            /\ mres' = join_result(wres)
            /\ mi' = mi
    /\ UNCHANGED <<rvars, live, channels, pretty, stream, limit, available,
                   valid_channels, warned, wvars, ovars>>

\* ------------------------------------------------------------------ workers

Chunk(w, id, kind, text) == [w |-> w, id |-> id, kind |-> kind, text |-> text]

\* The thread closure's error! when monitor_channel returns Err.
Failed(w) ==
    /\ wpc' = [wpc EXCEPT ![w] = "done"]
    /\ wres' = [wres EXCEPT ![w] = "err"]
    /\ errlog' = [errlog EXCEPT ![w] = @ \cup {"Error monitoring"}]

\* let signal = CreateEventW(None, true, true, None)?;
CreateSignal(w) ==
    /\ Running /\ wpc[w] = "start"
    /\ \/ /\ signal' = [signal EXCEPT ![w] = "set"]
          /\ wpc' = [wpc EXCEPT ![w] = "subscribe"]
          /\ UNCHANGED <<wres, errlog>>
       \/ /\ Failed(w)
          /\ UNCHANGED signal
    /\ UNCHANGED <<rvars, mvars, requests, returned, closed, sub, subres,
                   subtries, queue, arrived, delivered, batch, bi, json,
                   open_events, ovars>>

SubscribeOutcomes == {"ok", "not_supported", "access_denied", "other"}

\* Where monitor_channel goes after EvtSubscribe answered r.
after_subscribe_retry(r) ==
    CASE r = "ok" -> "wait"
      [] r = "not_supported" -> "done"
      [] r = "access_denied" -> "subscribe"
      [] OTHER -> "done"

after_subscribe_drain(r) ==
    CASE r = "ok" -> "wait"
      [] r = "not_supported" -> "wait"
      [] r = "access_denied" -> "elevate"
      [] OTHER -> "done"

after_subscribe_ignore(r) ==
    CASE r = "ok" -> "wait"
      [] r = "not_supported" -> "done"
      [] r = "access_denied" -> "elevate"
      [] OTHER -> "wait"

after_subscribe(r) ==
    CASE r = "ok" -> "wait"
      [] r = "not_supported" -> "done"
      [] r = "access_denied" -> "elevate"
      [] OTHER -> "done"

\* The match on EvtSubscribe's result.
Subscribe(w) ==
    /\ Running /\ wpc[w] = "subscribe"
    /\ \E r \in SubscribeOutcomes :
          /\ subres' = [subres EXCEPT ![w] = r]
          /\ subtries' = [subtries EXCEPT ![w] = @ + 1]
          /\ wpc' = [wpc EXCEPT ![w] = after_subscribe(r)]
          /\ sub' = [sub EXCEPT ![w] = IF after_subscribe(r) = "wait" THEN "open" ELSE @]
          /\ wres' = [wres EXCEPT ![w] =
                         CASE r = "not_supported" /\ after_subscribe(r) = "done" -> "ok"
                           [] r = "other" -> "err"
                           [] OTHER -> @]
          /\ errlog' = [errlog EXCEPT ![w] =
                         CASE r = "access_denied" -> @ \cup {"Access denied"}
                           [] r = "other" -> @ \cup {"Error monitoring"}
                           [] OTHER -> @]
    /\ UNCHANGED <<rvars, mvars, requests, returned, closed, signal, queue,
                   arrived, delivered, batch, bi, json, open_events, ovars>>

\* privilege::try_elevate: current_exe() fails and nothing is launched, or
\* ShellExecuteW is asked to launch the executable with the verb "runas" and
\* answers a value <= 32 (failure) or above.
ElevateOutcomes == {"no_exe", "shell_failed", "ok"}

\* let _ = privilege::try_elevate();
Elevate(w) ==
    /\ Running /\ wpc[w] = "elevate"
    /\ \E r \in ElevateOutcomes : relaunches' = Append(relaunches, r)
    /\ wpc' = [wpc EXCEPT ![w] = "exit"]
    /\ UNCHANGED <<rvars, mvars, requests, returned, closed, wres, signal, sub,
                   subres, subtries, queue, arrived, delivered, batch, bi, json,
                   open_events, errlog, mutex, sink, sinkOpen, exited>>

\* std::process::exit(1)
exit_status == 1

ProcessExit(w) ==
    /\ Running /\ wpc[w] = "exit"
    /\ exited' = <<exit_status>>
    /\ UNCHANGED <<rvars, mvars, requests, returned, closed, wpc, wres, signal,
                   sub, subres, subtries, queue, arrived, delivered, batch, bi,
                   json, open_events, errlog, mutex, sink, sinkOpen,
                   relaunches>>

\* WaitForSingleObject(signal, INFINITE) on a manual-reset event
Wait(w) ==
    /\ Running /\ wpc[w] = "wait"
    /\ signal[w] = "set"
    /\ wpc' = [wpc EXCEPT ![w] = "next"]
    /\ UNCHANGED <<rvars, mvars, requests, returned, closed, wres, signal, sub,
                   subres, subtries, queue, arrived, delivered, batch, bi, json,
                   open_events, errlog, ovars>>

\* A timeout argument: INFINITE (0xFFFFFFFF), or a number of milliseconds.
INFINITE == [infinite |-> TRUE, ms |-> 0]

Millis(n) == [infinite |-> FALSE, ms |-> n]

\* The arguments of EvtNext(subscription, events_slice, INFINITE, 0, ..).
EvtNextTimeout == INFINITE

EvtNextRequest == [size |-> EventsSize, timeout |-> EvtNextTimeout]

\* EvtNext(subscription, events, ..): the OS returns between one and
\* events.len() of the pending events, oldest first; or no event (none is
\* pending, or the call fails), which ends the drain.  On a subscription the
\* OS answers at once whatever the timeout.
EvtNext(w) ==
    /\ Running /\ wpc[w] = "next"
    /\ requests' = [requests EXCEPT ![w] = @ \cup {EvtNextRequest}]
    /\ \/ \E n \in 1..Min(EvtNextRequest.size, Len(queue[w])) :
             LET got == SubSeq(queue[w], 1, n)
             IN  /\ batch' = [batch EXCEPT ![w] = got]
                 /\ queue' = [queue EXCEPT ![w] = SubSeq(@, n + 1, Len(@))]
                 /\ delivered' = [delivered EXCEPT ![w] = @ \o got]
                 /\ open_events' = [open_events EXCEPT ![w] =
                                       @ \cup {got[i].id : i \in 1..n}]
                 /\ bi' = [bi EXCEPT ![w] = 1]
                 /\ returned' = [returned EXCEPT ![w] = n]
                 /\ wpc' = [wpc EXCEPT ![w] = "render"]
       \/ /\ wpc' = [wpc EXCEPT ![w] = "reset"]
          /\ returned' = [returned EXCEPT ![w] = 0]
          /\ UNCHANGED <<batch, queue, delivered, open_events, bi>>
    /\ UNCHANGED <<rvars, mvars, closed, wres, signal, sub, subres, subtries,
                   arrived, json, errlog, ovars>>

\* Where the for loop goes with render_event's result r: into the if let, or
\* past it to EvtClose.
after_render_break(r) == IF r.kind = "some" THEN "lock" ELSE "next"

after_render(r) == IF r.kind = "some" THEN "lock" ELSE "close"

\* if let Some(json) = render_event(events[i], pretty)
Render(w) ==
    /\ Running /\ wpc[w] = "render"
    /\ LET r == render_event(EventSpec(batch[w][bi[w]].ty), pretty)
       IN  /\ json' = [json EXCEPT ![w] = r]
           /\ wpc' = [wpc EXCEPT ![w] = after_render(r)]
    /\ UNCHANGED <<rvars, mvars, requests, returned, closed, wres, signal, sub,
                   subres, subtries, queue, arrived, delivered, batch, bi,
                   open_events, errlog, ovars>>

\* if let Ok(mut out) = output.lock()
lock_free(w) == TRUE

lock_guard(w) == mutex = 0

Lock(w) ==
    /\ Running /\ wpc[w] = "lock"
    /\ lock_guard(w)
    /\ mutex' = w
    /\ wpc' = [wpc EXCEPT ![w] = "write_text"]
    /\ UNCHANGED <<rvars, mvars, requests, returned, closed, wres, signal, sub,
                   subres, subtries, queue, arrived, delivered, batch, bi, json,
                   open_events, errlog, sink, sinkOpen, relaunches, exited>>

\* The write that tries again instead of returning.
WriteChunk_retry(w, kind, nextpc) ==
    LET ev == batch[w][bi[w]]
    IN  IF sinkOpen
        THEN /\ sink' = Append(sink, Chunk(w, ev.id, kind,
                                           IF kind = "json" THEN json[w].v ELSE None))
             /\ wpc' = [wpc EXCEPT ![w] = nextpc]
             /\ UNCHANGED <<mutex, wres, errlog, open_events, closed>>
        ELSE /\ errlog' = [errlog EXCEPT ![w] = @ \cup {"Failed to write event"}]
             /\ UNCHANGED <<sink, wpc, mutex, wres, open_events, closed>>

\* The write whose failure path keeps the guard.
WriteChunk_keep(w, kind, nextpc) ==
    LET ev == batch[w][bi[w]]
    IN  IF sinkOpen
        THEN /\ sink' = Append(sink, Chunk(w, ev.id, kind,
                                           IF kind = "json" THEN json[w].v ELSE None))
             /\ wpc' = [wpc EXCEPT ![w] = nextpc]
             /\ UNCHANGED <<mutex, wres, errlog, open_events, closed>>
        ELSE /\ errlog' = [errlog EXCEPT ![w] = @ \cup {"Failed to write event"}]
             /\ open_events' = [open_events EXCEPT ![w] = @ \ {ev.id}]
             /\ closed' = [closed EXCEPT ![w] = Append(@, ev.id)]
             /\ wpc' = [wpc EXCEPT ![w] = "done"]
             /\ wres' = [wres EXCEPT ![w] = "ok"]
             /\ UNCHANGED <<sink, mutex>>

\* writeln!(*out, "{}", json): write_fmt writes the text, then the line
\* terminator; either write fails when the destination is closed, and then
\* the event is closed and monitor_channel returns Ok(()), dropping the guard.
WriteChunk(w, kind, nextpc) ==
    LET ev == batch[w][bi[w]]
    IN  IF sinkOpen
        THEN /\ sink' = Append(sink, Chunk(w, ev.id, kind,
                                           IF kind = "json" THEN json[w].v ELSE None))
             /\ wpc' = [wpc EXCEPT ![w] = nextpc]
             /\ UNCHANGED <<mutex, wres, errlog, open_events, closed>>
        ELSE /\ errlog' = [errlog EXCEPT ![w] = @ \cup {"Failed to write event"}]
             /\ open_events' = [open_events EXCEPT ![w] = @ \ {ev.id}]
             /\ closed' = [closed EXCEPT ![w] = Append(@, ev.id)]
             /\ wpc' = [wpc EXCEPT ![w] = "done"]
             /\ wres' = [wres EXCEPT ![w] = "ok"]
             /\ mutex' = 0
             /\ UNCHANGED sink

WriteText(w) ==
    /\ Running /\ wpc[w] = "write_text"
    /\ WriteChunk(w, "json", "write_nl")
    /\ UNCHANGED <<rvars, mvars, requests, returned, signal, sub, subres,
                   subtries, queue, arrived, delivered, batch, bi, json,
                   sinkOpen, relaunches, exited>>

WriteNewline(w) ==
    /\ Running /\ wpc[w] = "write_nl"
    /\ WriteChunk(w, "nl", "flush")
    /\ UNCHANGED <<rvars, mvars, requests, returned, signal, sub, subres,
                   subtries, queue, arrived, delivered, batch, bi, json,
                   sinkOpen, relaunches, exited>>

\* let _ = out.flush(); and the guard is dropped at the end of the if let.
Flush(w) ==
    /\ Running /\ wpc[w] = "flush"
    /\ mutex' = 0
    /\ wpc' = [wpc EXCEPT ![w] = "close"]
    /\ UNCHANGED <<rvars, mvars, requests, returned, closed, wres, signal, sub,
                   subres, subtries, queue, arrived, delivered, batch, bi, json,
                   open_events, errlog, sink, sinkOpen, relaunches, exited>>

\* The index of the event handled after events[i].
next_index_same(i) == i

next_index(i) == i + 1

\* Where the drain loop goes after the last event of a batch: EvtNext again.
after_batch_reset == "reset"

after_batch == "next"

\* let _ = EvtClose(events[i]); and the next iteration of the for loop.
CloseEvent(w) ==
    /\ Running /\ wpc[w] = "close"
    /\ open_events' = [open_events EXCEPT ![w] = @ \ {batch[w][bi[w]].id}]
    /\ closed' = [closed EXCEPT ![w] = Append(@, batch[w][bi[w]].id)]
    /\ LET n == next_index(bi[w])
       IN  /\ bi' = [bi EXCEPT ![w] = n]
           /\ wpc' = [wpc EXCEPT ![w] = IF n <= Len(batch[w]) THEN "render" ELSE after_batch]
    /\ UNCHANGED <<rvars, mvars, requests, returned, wres, signal, sub, subres,
                   subtries, queue, arrived, delivered, batch, json, errlog,
                   ovars>>

\* let _ = ResetEvent(signal);
ResetSignal(w) ==
    /\ Running /\ wpc[w] = "reset"
    /\ signal' = [signal EXCEPT ![w] = "reset"]
    /\ wpc' = [wpc EXCEPT ![w] = "wait"]
    /\ UNCHANGED <<rvars, mvars, requests, returned, closed, wres, sub, subres,
                   subtries, queue, arrived, delivered, batch, bi, json,
                   open_events, errlog, ovars>>

\* -------------------------------------------------------------- environment

\* The type of the next event the OS logs: the stream, repeated.
NextType == stream[(TotalArrived % Len(stream)) + 1]

\* The OS queues a new event for an open subscription and sets its signal.
EventArrives(w) ==
    /\ Running /\ sub[w] = "open"
    /\ TotalArrived < limit
    /\ queue' = [queue EXCEPT ![w] =
                     Append(@, [id |-> arrived[w] + 1, ty |-> NextType])]
    /\ arrived' = [arrived EXCEPT ![w] = @ + 1]
    /\ signal' = [signal EXCEPT ![w] = "set"]
    /\ UNCHANGED <<rvars, mvars, requests, returned, closed, wpc, wres, sub,
                   subres, subtries, delivered, batch, bi, json, open_events,
                   errlog, ovars>>

\* The output's destination is closed (the pipe's reader exits, the disk
\* goes away): every later write fails.
SinkCloses ==
    /\ Running /\ sinkOpen
    /\ \E w \in Workers : sub[w] = "open"
    /\ sinkOpen' = FALSE
    /\ UNCHANGED <<rvars, mvars, wvars, mutex, sink, relaunches, exited>>

\* ------------------------------------------------------------ specification

WorkerStep(w) ==
    \/ CreateSignal(w)
    \/ Subscribe(w)
    \/ Elevate(w)
    \/ ProcessExit(w)
    \/ Wait(w)
    \/ EvtNext(w)
    \/ Render(w)
    \/ Lock(w)
    \/ WriteText(w)
    \/ WriteNewline(w)
    \/ Flush(w)
    \/ CloseEvent(w)
    \/ ResetSignal(w)

MonitorStep ==
    \/ MonitorEnum
    \/ MonitorResolve
    \/ MonitorCheck
    \/ MonitorSpawn
    \/ MonitorJoin

Next ==
    \/ MonitorStep
    \/ \E w \in Workers : WorkerStep(w)
    \/ \E w \in Workers : EventArrives(w)
    \/ SinkCloses

\* The runs of the full program: a few pattern lists (with the pretty flag),
\* two channels at most.
RunLive == {<<App, System>>}

Runs ==
    {<< <<>>, FALSE >>, << <<Nope>>, TRUE >>, << <<App>>, FALSE >>, << <<App>>, TRUE >>,
     << <<App, App>>, FALSE >>, << <<App, SysStar>>, TRUE >>}

RunStreams ==
    {<<"Flat4", "Flat2", "Sys4">>, <<"Sys4", "Sys2", "NoRender">>,
     <<"NoRender", "Sys4", "BadXml">>, <<"BadXml", "Sys2", "Flat4">>,
     <<"Sys2", "NoRender", "Sys4">>}

Init == InitWith(RunLive, Runs, RunStreams)

Spec == Init /\ [][Next]_vars

\* A thread that reported access denied is scheduled: try_elevate returns and
\* std::process::exit is reached.
FairSpec == Spec /\ WF_vars(\E w \in Workers : Elevate(w) \/ ProcessExit(w))

\* Channel resolution alone, over every short pattern list.
LiveChoices == {<<>>, <<App>>, <<System, Security, SysMonOperational>>}

PatternPool == {App, System, Nope, SysStar, SQuestStem, StarSlashStar, SeStar, ZStar}

InitResolve ==
    InitWith(LiveChoices, ListsUpTo(PatternPool, MaxPatterns) \X {FALSE}, {<<"Sys4">>})

NextResolve ==
    \/ MonitorEnum
    \/ MonitorResolve
    \/ MonitorCheck

SpecResolve == InitResolve /\ [][NextResolve]_vars

\* ------------------------------------------------------ one channel, a burst

\* One channel on which the OS logs a burst of events of one type, more than
\* an EvtNext call can return.
InitDrain ==
    /\ live = <<App>>
    /\ channels = <<App>>
    /\ pretty = FALSE
    /\ stream = <<"Sys4">>
    /\ limit = MaxBurst
    /\ InitProgram
    /\ RenderOff

SpecDrain == InitDrain /\ [][Next]_vars

\* --------------------------------------------------------- render_event alone

\* The first two statements of render_event: EvtRender, then
\* xml::parse_to_json(&xml)?.
RenderXml ==
    /\ rstage = "event"
    /\ LET parsed == IF revent.renderOk THEN parse_to_json(revent.markup) ELSE None
       IN  /\ rparsed' = parsed
           /\ rvalue' = parsed
           /\ rstage' = IF parsed.kind = "some" THEN "parsed" ELSE "done"
    /\ UNCHANGED <<revent, mvars, wvars, ovars>>

\* enrich_metadata(event, &mut v);
RenderEnrich ==
    /\ rstage = "parsed"
    /\ rvalue' = Some(enrich_metadata(revent, rvalue.v))
    /\ rstage' = "enriched"
    /\ UNCHANGED <<revent, rparsed, mvars, wvars, ovars>>

\* if let Some(prov) = provider_name { .. obj.insert("Message", ..) }
RenderMessage ==
    /\ rstage = "enriched"
    /\ rvalue' = Some(add_message(revent, provider_name(rparsed.v), rvalue.v))
    /\ rstage' = "done"
    /\ UNCHANGED <<revent, rparsed, mvars, wvars, ovars>>

NextRender ==
    \/ RenderXml
    \/ RenderEnrich
    \/ RenderMessage

AttrA == Attr(<<"a">>, <<"1">>)

AttrB == Attr(<<"b">>, <<"2">>)

Leaf(tag, text) == El(<<tag>>, <<>>, <<>>, text)

EventOf(system) == El(<<"Event">>, <<>>, <<system>>, <<>>)

\* <Event><System><Provider Name="X"/><EventID Qualifiers="0">7</EventID>
\* <Level>4</Level><Task>0</Task><Opcode>0</Opcode><Keywords>0x80</Keywords>
\* <Data a="1">x</Data><Channel>App</Channel><Data>y</Data>
\* <Security a="1" b="2"/></System></Event>
RichDoc ==
    EventOf(El(<<"System">>, <<>>,
               <<ProviderX,
                 El(<<"EventID">>, <<Attr(<<"Qualifiers">>, <<"0">>)>>, <<>>, <<"7">>),
                 Leaf("Level", <<"4">>),
                 Leaf("Task", <<"0">>),
                 Leaf("Opcode", <<"0">>),
                 Leaf("Keywords", <<"0x80">>),
                 El(<<"Data">>, <<AttrA>>, <<>>, <<"x">>),
                 Leaf("Channel", <<"App">>),
                 Leaf("Data", <<"y">>),
                 El(<<"Security">>, <<AttrA, AttrB>>, <<>>, <<>>)>>,
               <<>>))

\* <Event><System><Provider><Name>X</Name></Provider><Level> 4 </Level>
\* <Message>orig</Message><TimeCreated a="1"> </TimeCreated>
\* <UserData><Level>9</Level></UserData></System></Event>
PaddedDoc ==
    EventOf(El(<<"System">>, <<>>,
               <<El(<<"Provider">>, <<>>, <<Leaf("Name", <<"X">>)>>, <<>>),
                 Leaf("Level", <<" ", "4", " ">>),
                 Leaf("Message", <<"orig">>),
                 El(<<"TimeCreated">>, <<AttrA>>, <<>>, <<" ">>),
                 El(<<"UserData">>, <<>>, <<Leaf("Level", <<"9">>)>>, <<>>)>>,
               <<>>))

\* <Event><System b="2"><Provider Name="X"/><Level><Sub>1</Sub><Sub>2</Sub>
\* <Sub>3</Sub></Level><Keywords>k1</Keywords><Keywords>k2</Keywords>
\* <Task a="1">text<Sub>1</Sub></Task><Opcode a="1"/><Data/><Data/>
\* </System></Event>
NestedDoc ==
    EventOf(El(<<"System">>, <<AttrB>>,
               <<ProviderX,
                 El(<<"Level">>, <<>>,
                    <<Leaf("Sub", <<"1">>), Leaf("Sub", <<"2">>), Leaf("Sub", <<"3">>)>>,
                    <<>>),
                 Leaf("Keywords", <<"k1">>),
                 Leaf("Keywords", <<"k2">>),
                 El(<<"Task">>, <<AttrA>>, <<Leaf("Sub", <<"1">>)>>, <<"text">>),
                 El(<<"Opcode">>, <<AttrA>>, <<>>, <<>>),
                 Leaf("Data", <<>>),
                 Leaf("Data", <<>>)>>,
               <<>>))

\* <Event a="1" b="2">hello</Event>, <Event a="1" b="2"/>, <Event> </Event>
TextRootDoc == El(<<"Event">>, <<AttrA, AttrB>>, <<>>, <<"hello">>)

AttrRootDoc == El(<<"Event">>, <<AttrA, AttrB>>, <<>>, <<>>)

BlankRootDoc == El(<<"Event">>, <<>>, <<>>, <<" ">>)

RenderDocs ==
    {RichDoc, PaddedDoc, NestedDoc, FlatDoc("4"), TextRootDoc, AttrRootDoc, BlankRootDoc}

\* What EvtFormatMessage can answer for a field: nothing to format, a size
\* and then a failure, an empty text, a text.
FmtChoices(key) ==
    {FmtFails, FmtOutcome(2, FALSE, <<>>), FmtOutcome(1, TRUE, <<>>),
     FmtText(<<"friendly">> \o key)}

FewFmtChoices(key) == {FmtFails, FmtText(<<"friendly">> \o key)}

RenderFmts ==
    {f \in [Range(EnrichKeys) -> UNION {FmtChoices(k) : k \in Range(EnrichKeys)}] :
        /\ f[<<"Keywords">>] \in FmtChoices(<<"Keywords">>)
        /\ f[<<"Level">>] \in FmtChoices(<<"Level">>)
        /\ f[<<"Task">>] \in FewFmtChoices(<<"Task">>)
        /\ f[<<"Opcode">>] \in FewFmtChoices(<<"Opcode">>)}

\* The events render_event is run on: EvtRender fails; or it gives a markup
\* that does not parse, or one of the documents, with every answer of the
\* formatting calls.
RenderInputs ==
    {[renderOk |-> FALSE, markup |-> [ok |-> TRUE, root |-> RichDoc],
      fmt |-> FmtFor("4"), metaOk |-> TRUE, msg |-> FmtFails],
     [renderOk |-> TRUE, markup |-> [ok |-> FALSE, root |-> RichDoc],
      fmt |-> FmtFor("4"), metaOk |-> TRUE, msg |-> FmtFails]}
    \cup
    {[renderOk |-> TRUE, markup |-> [ok |-> TRUE, root |-> d],
      fmt |-> f, metaOk |-> m, msg |-> g] :
        d \in RenderDocs, f \in RenderFmts, m \in BOOLEAN,
        g \in FmtChoices(<<"Message">>)}

InitRender ==
    /\ live = <<>>
    /\ channels = <<>>
    /\ pretty = FALSE
    /\ stream = <<"Sys4">>
    /\ limit = 0
    /\ InitProgram
    /\ revent \in RenderInputs
    /\ rstage = "event"
    /\ rparsed = None
    /\ rvalue = None

SpecRender == InitRender /\ [][NextRender]_vars

\* ------------------------------------------------------------------ helpers

\* The chunks worker w wrote, in the order the output received them.
ChunksOf(w) == SelectSeq(sink, LAMBDA c : c.w = w)

\* The event ids of the records worker w started to write, in output order.
WrittenIds(w) ==
    LET texts == SelectSeq(sink, LAMBDA c : c.w = w /\ c.kind = "json")
    IN  [i \in 1..Len(texts) |-> texts[i].id]

\* The complete lines of the output: each text that its terminator follows.
Lines ==
    LET starts == SelectSeq([i \in 1..Len(sink) |-> i],
                            LAMBDA i : /\ sink[i].kind = "json"
                                       /\ i < Len(sink)
                                       /\ sink[i + 1].kind = "nl")
    IN  [k \in 1..Len(starts) |-> sink[starts[k]].text]

Renderable(ev) == render_event(EventSpec(ev.ty), pretty).kind = "some"

\* The ids of the events the OS returned to w that render to a record.
RenderableIds(w) ==
    LET evs == SelectSeq(delivered[w], Renderable)
    IN  [i \in 1..Len(evs) |-> evs[i].id]

IsPrefix(a, b) == Len(a) <= Len(b) /\ SubSeq(b, 1, Len(a)) = a

\* Worker w handled every event the OS returned to it so far.
Drained(w) == wpc[w] \in {"next", "reset", "wait"}

\* Resolution ran to its end (the enumeration did not fail).
Resolved == mpc \notin {"enum", "resolve"} /\ mres # "err_enum"

\* Pattern p selects the channel name n.
Selects(p, n) == IF is_glob(p) THEN glob_match(p, n) ELSE p = n

\* ------------------------------------------------------------------ claims

\* C1: a record (its JSON text, then its line terminator) reaches the output
\* contiguously: the terminator of a record is the chunk right after its
\* text, a worker writes only while it holds the mutex, and while a worker
\* is between the text and the terminator the output ends with its text.
C1_RecordsContiguous ==
    /\ \A i, j \in DOMAIN sink :
          ( /\ i < j
            /\ sink[i].kind = "json" /\ sink[j].kind = "nl"
            /\ sink[i].w = sink[j].w /\ sink[i].id = sink[j].id ) => j = i + 1
    /\ \A w \in Workers :
          wpc[w] \in {"write_text", "write_nl", "flush"} => mutex = w
    /\ \A w \in Workers :
          wpc[w] = "write_nl" =>
              /\ sink # <<>>
              /\ sink[Len(sink)].w = w
              /\ sink[Len(sink)].kind = "json"

\* Two workers have each written a complete record.
C1_Witness ==
    \E i, j \in DOMAIN sink :
        /\ sink[i].kind = "nl" /\ sink[j].kind = "nl"
        /\ sink[i].w # sink[j].w

\* C2: the records a worker writes are those of the events the OS returned
\* to it, in the order it returned them, without the events that do not
\* render: no reordering, no repetition, and once the worker is through its
\* batches none that renders is missing (unless a write failed).
C2_ChannelOrder ==
    \A w \in Workers :
        /\ IsPrefix(WrittenIds(w), RenderableIds(w))
        /\ Drained(w) => WrittenIds(w) = RenderableIds(w)

\* A worker wrote two events of three returned to it, in more than one batch.
C2_Witness ==
    \E w \in Workers :
        /\ Len(WrittenIds(w)) = 2
        /\ Len(delivered[w]) = 3
        /\ Len(batch[w]) < 3
        /\ Drained(w)

\* The scenario of the claim: channel list ["App"], subscribed, the first two
\* events of stream s arrived and were handled, the output accepting writes.
ScenarioDone(s) ==
    /\ channels = <<App>>
    /\ stream = s
    /\ Workers = {1}
    /\ sub[1] = "open"
    /\ arrived[1] = 2
    /\ Len(delivered[1]) = 2
    /\ Drained(1)
    /\ sinkOpen

FlatStream == <<"Flat4", "Flat2", "Sys4">>

WrappedStream == <<"Sys4", "Sys2", "NoRender">>

HasLevel(text, l) ==
    /\ text.value.kind = "obj"
    /\ <<"Level">> \in DOMAIN text.value.v
    /\ text.value.v[<<"Level">>] = JStr(<<l>>)

\* C3 as stated: after <Event><Provider Name="X"/><Level>4</Level></Event>
\* and the same with level 2, the output holds exactly two lines, with
\* "Level":"Information" and then "Level":"Warning".
C3_AsStated ==
    ScenarioDone(FlatStream) =>
        /\ Len(Lines) = 2
        /\ HasLevel(Lines[1], "Information")
        /\ HasLevel(Lines[2], "Warning")

\* C3 amended: with that markup the record is the first child of the root,
\* <Provider Name="X"/>, so both lines are {"@Name":"X"}; the two lines hold
\* "Level":"Information" and then "Level":"Warning" when Provider and Level
\* are inside a first child element, <Event><System>..</System></Event>.
C3_FirstChildScenario ==
    /\ ScenarioDone(FlatStream) =>
          LET nameOnly == to_json_text(JObj([k \in {<<"@", "Name">>} |-> JStr(<<"X">>)]),
                                       pretty)
          IN  Lines = <<nameOnly, nameOnly>>
    /\ ScenarioDone(WrappedStream) =>
          /\ Len(Lines) = 2
          /\ HasLevel(Lines[1], "Information")
          /\ HasLevel(Lines[2], "Warning")

C3_Witness == ScenarioDone(WrappedStream) /\ Len(Lines) = 2

\* No pattern of the list selects a live channel.
NothingMatches ==
    \A i \in DOMAIN channels : \A n \in Range(live) : ~Selects(channels[i], n)

\* C4: when the pattern list is empty or no pattern matches a live channel,
\* monitor returns "No valid channels to subscribe to" with no worker
\* spawned, no signal created and no subscription attempted; and a worker
\* exists, a signal is created or a subscription attempted only after a
\* non-empty list was resolved.
C4_NoValidChannels ==
    /\ (Resolved /\ NothingMatches) =>
          /\ mpc = "ret"
          /\ mres = "err_novalid"
    /\ mres = "err_novalid" =>
          /\ valid_channels = <<>>
          /\ Workers = {}
    /\ \A w \in Workers :
          (wpc[w] # "none" \/ signal[w] # "none" \/ subtries[w] > 0) =>
              /\ valid_channels # <<>>
              /\ Resolved

C4_Witness == mres = "err_novalid" /\ channels # <<>>

\* C5: each channel name appears at most once in the resolved list, so no
\* two workers monitor the same channel.
C5_Deduplicated ==
    /\ NoDuplicates(valid_channels)
    /\ \A v, w \in Workers :
          (v # w /\ wpc[v] # "none" /\ wpc[w] # "none") =>
              valid_channels[v] # valid_channels[w]

\* The number of indices i of seq with P(i).
CountIdx(seq, P(_)) == Cardinality({i \in DOMAIN seq : P(i)})

C7_SysStarScenario ==
    ( /\ channels = <<SysStar>>
      /\ live = <<System, Security, SysMonOperational>>
      /\ Resolved ) =>
        Range(valid_channels) = {System, SysMonOperational}

\* C8: a worker whose subscription is answered "not supported" ends with
\* Ok(()) at once: it never holds a subscription, never drains, writes
\* nothing, logs no error, does not hold the mutex, and does not end the
\* process.
C8_Unsupported ==
    \A w \in Workers :
        subres[w] = "not_supported" =>
            /\ wpc[w] = "done"
            /\ wres[w] = "ok"
            /\ sub[w] = "none"
            /\ subtries[w] = 1
            /\ delivered[w] = <<>>
            /\ ChunksOf(w) = <<>>
            /\ errlog[w] = {}
            /\ mutex # w
            /\ (exited # <<>> => \E v \in Workers : subres[v] = "access_denied")

\* One channel is unsupported and another worker wrote a record.
C8_Witness ==
    \E v, w \in Workers :
        /\ subres[v] = "not_supported"
        /\ \E i \in DOMAIN sink : sink[i].w = w /\ sink[i].kind = "nl"

\* C9: a worker whose subscription is denied calls try_elevate and then
\* exits the process with status 1 whatever try_elevate answered; it
\* subscribes only once; the process exits in no other way here; after the
\* exit nothing changes any more, so no worker writes a further line; and,
\* the denied thread being scheduled, the process does exit.
C9_AccessDeniedExits ==
    /\ [](\A w \in Workers :
            subres[w] = "access_denied" =>
                /\ subtries[w] = 1
                /\ sub[w] = "none"
                /\ wpc[w] \in {"elevate", "exit"}
                /\ wpc[w] = "exit" => relaunches # <<>>
                /\ Running => ENABLED (Elevate(w) \/ ProcessExit(w)))
    /\ [](exited # <<>> =>
            /\ exited = <<1>>
            /\ relaunches # <<>>
            /\ \E w \in Workers : subres[w] = "access_denied" /\ wpc[w] = "exit")
    /\ [][exited # <<>> => sink' = sink]_vars
    /\ (\E w \in Workers : subres[w] = "access_denied") ~> (exited # <<>>)

\* The process exited after a failed relaunch while another worker had
\* written a record.
C9_Witness ==
    /\ exited = <<1>>
    /\ relaunches = <<"shell_failed">>
    /\ sink # <<>>

\* C10: try_elevate is called at most once per process.
C10_RelaunchOnce == Len(relaunches) <= 1

\* C11: a worker whose subscription fails with an error that is neither
\* "not supported" nor "access denied" ends with that error, which the
\* thread reports: it holds no subscription, made no EvtNext call, wrote
\* nothing, does not hold the mutex and did not end the process; the other
\* workers go on: one that is about to subscribe, to call EvtNext or to
\* write can do so.
C11_SubscribeError ==
    \A w \in Workers :
        subres[w] = "other" =>
            /\ wpc[w] = "done"
            /\ wres[w] = "err"
            /\ "Error monitoring" \in errlog[w]
            /\ sub[w] = "none"
            /\ subtries[w] = 1
            /\ requests[w] = {}
            /\ delivered[w] = <<>>
            /\ ChunksOf(w) = <<>>
            /\ mutex # w
            /\ (exited # <<>> => \E v \in Workers : wpc[v] = "exit")
            /\ \A v \in Workers \ {w} :
                  Running =>
                      /\ wpc[v] = "subscribe" => ENABLED Subscribe(v)
                      /\ wpc[v] = "next" => ENABLED EvtNext(v)
                      /\ wpc[v] = "write_text" => ENABLED WriteText(v)

\* One subscription failed with another error and another worker wrote a
\* record.
C11_Witness ==
    \E v, w \in Workers :
        /\ subres[w] = "other"
        /\ v > w
        /\ \E i \in DOMAIN sink : sink[i].w = v /\ sink[i].kind = "nl"

\* A write of worker w failed.
WriteFailed(w) == "Failed to write event" \in errlog[w]

\* C12: a worker whose write failed has returned Ok(()) with only that
\* error logged, does not hold the mutex and did not end the process; from
\* then on it takes no step: no further chunk, no EvtNext call, no event
\* returned to it; the complete lines of the output only ever grow at the
\* end; and every text in the output is followed by its terminator, except a
\* last text whose writer is about to write the terminator or failed to.
C12_WriteFailure ==
    /\ [](\A w \in Workers :
            WriteFailed(w) =>
                /\ wpc[w] = "done"
                /\ wres[w] = "ok"
                /\ errlog[w] = {"Failed to write event"}
                /\ mutex # w
                /\ (exited # <<>> => \E v \in Workers : wpc[v] = "exit"))
    /\ [][\A w \in Workers :
            WriteFailed(w) =>
                /\ wpc'[w] = wpc[w]
                /\ ChunksOf(w)' = ChunksOf(w)
                /\ requests'[w] = requests[w]
                /\ delivered'[w] = delivered[w]]_vars
    /\ [][IsPrefix(Lines, Lines')]_vars
    /\ [](\A i \in DOMAIN sink :
            sink[i].kind = "json" =>
                \/ /\ i < Len(sink)
                   /\ sink[i + 1].kind = "nl"
                   /\ sink[i + 1].w = sink[i].w
                   /\ sink[i + 1].id = sink[i].id
                \/ /\ i = Len(sink)
                   /\ wpc[sink[i].w] = "write_nl" \/ WriteFailed(sink[i].w))

\* A worker's write of a line terminator failed after a complete line had
\* been written.
C12_Witness ==
    \E w \in Workers :
        /\ WriteFailed(w)
        /\ Lines # <<>>
        /\ sink[Len(sink)].kind = "json"
        /\ sink[Len(sink)].w = w

\* The number of events returned to worker w whose iteration of the for loop
\* is over.
Handled(w) ==
    IF Drained(w) THEN Len(delivered[w])
    ELSE IF batch[w] = <<>> THEN 0
    ELSE Len(delivered[w]) - Len(batch[w]) + bi[w] - 1

\* C13: an event that does not render (EvtRender fails, or the markup does
\* not parse) gives no chunk in the output and no error: a subscribed worker
\* no write of which failed has an empty error log and has not returned; and
\* the worker goes on: every event that renders and whose iteration is over,
\* in the same batch or a later one, was written.
C13_RenderFailureSkipped ==
    \A w \in Workers :
        /\ \A k \in DOMAIN delivered[w] :
              ~Renderable(delivered[w][k]) =>
                  \A i \in DOMAIN sink :
                      ~(sink[i].w = w /\ sink[i].id = delivered[w][k].id)
        /\ (sub[w] = "open" /\ ~WriteFailed(w)) =>
              /\ errlog[w] = {}
              /\ wpc[w] # "done"
              /\ wres[w] = "none"
              /\ \A j \in 1..Handled(w) :
                    Renderable(delivered[w][j]) =>
                        \E i \in DOMAIN sink :
                            /\ sink[i].w = w
                            /\ sink[i].id = delivered[w][j].id
                            /\ sink[i].kind = "nl"

\* In one batch an event did not render and the event after it was written.
C13_Witness ==
    \E w \in Workers : \E k \in DOMAIN batch[w] :
        /\ k < Len(batch[w])
        /\ ~Renderable(batch[w][k])
        /\ Renderable(batch[w][k + 1])
        /\ \E i \in DOMAIN sink :
              sink[i].w = w /\ sink[i].id = batch[w][k + 1].id /\ sink[i].kind = "nl"

\* The keys enrichment may touch.
EnrichedKeys == Range(EnrichKeys) \cup {<<"Message">>}

\* C14: render_event's enrichment (enrich_metadata, then the insertion of
\* Message) changes only the top-level keys Keywords, Level, Task, Opcode
\* and Message: a value that is not an object is left as it is; on an object
\* no key is removed, enrich_metadata adds none and the message step adds at
\* most Message, and every other key keeps its value.
C14_EnrichmentFrame ==
    (rstage \in {"enriched", "done"} /\ rparsed.kind = "some") =>
        LET before == rparsed.v
            after == rvalue.v
        IN  IF before.kind # "obj" THEN after = before
            ELSE /\ after.kind = "obj"
                 /\ DOMAIN before.v \subseteq DOMAIN after.v
                 /\ DOMAIN after.v \ DOMAIN before.v \subseteq {<<"Message">>}
                 /\ rstage = "enriched" => DOMAIN after.v = DOMAIN before.v
                 /\ \A k \in DOMAIN before.v \ EnrichedKeys : after.v[k] = before.v[k]

\* Enrichment replaced Level and added Message on a record that has other
\* keys too.
C14_Witness ==
    /\ rstage = "done"
    /\ rparsed.kind = "some"
    /\ rparsed.v.kind = "obj"
    /\ <<"Level">> \in DOMAIN rparsed.v.v
    /\ rvalue.v.v[<<"Level">>] # rparsed.v.v[<<"Level">>]
    /\ <<"Message">> \in DOMAIN rvalue.v.v \ DOMAIN rparsed.v.v
    /\ DOMAIN rparsed.v.v \ EnrichedKeys # {}

\* The elements of the tree under node, node included.
RECURSIVE Subtrees(_)
Subtrees(node) ==
    {node} \cup UNION {Subtrees(node.kids[i]) : i \in DOMAIN node.kids}

\* The positions, in document order, of the children of node with tag t.
TagPositions(node, t) ==
    SelectSeq([i \in 1..Len(node.kids) |-> i], LAMBDA i : node.kids[i].tag = t)

\* C15: once parse_to_json answered, for every element of the document that
\* has element children the transcoded value is an object in which a tag
\* borne by one child maps to that child's transcoded value, a tag borne by
\* k > 1 children maps to an array of length k whose i-th entry is the
\* transcoded value of the i-th such child in document order, and every
\* attribute is under its name prefixed with "@"; the object has no other
\* key.
C15_ChildrenAndAttributes ==
    (rstage # "event" /\ rparsed.kind = "some") =>
        \A node \in Subtrees(revent.markup.root) :
            node.kids # <<>> =>
                LET j == element_to_json(node)
                IN  /\ j.kind = "obj"
                    /\ DOMAIN j.v =
                          {node.kids[i].tag : i \in DOMAIN node.kids}
                          \cup {<<"@">> \o node.attrs[i].name : i \in DOMAIN node.attrs}
                    /\ \A i \in DOMAIN node.attrs :
                          j.v[<<"@">> \o node.attrs[i].name] = JStr(node.attrs[i].value)
                    /\ \A c \in DOMAIN node.kids :
                          LET t == node.kids[c].tag
                              pos == TagPositions(node, t)
                          IN  IF Len(pos) = 1
                              THEN j.v[t] = element_to_json(node.kids[c])
                              ELSE /\ j.v[t].kind = "arr"
                                   /\ Len(j.v[t].v) = Len(pos)
                                   /\ \A i \in DOMAIN pos :
                                         j.v[t].v[i] = element_to_json(node.kids[pos[i]])

\* The record holds an array of two values in document order, a key with a
\* single child's value, and an attribute.
C15_Witness ==
    /\ rstage = "parsed"
    /\ rparsed.kind = "some"
    /\ rparsed.v.kind = "obj"
    /\ <<"Keywords">> \in DOMAIN rparsed.v.v
    /\ rparsed.v.v[<<"Keywords">>] = JArr(<<JStr(<<"k1">>), JStr(<<"k2">>)>>)
    /\ <<"Provider">> \in DOMAIN rparsed.v.v
    /\ rparsed.v.v[<<"Provider">>] = JObj([k \in {<<"@", "Name">>} |-> JStr(<<"X">>)])
    /\ <<"@", "b">> \in DOMAIN rparsed.v.v

\* C16: once parse_to_json answered, for every element of the document
\* without element children: when its trimmed text is not empty the
\* transcoded value is that trimmed string, whatever its attributes; else it
\* is the object holding exactly its attributes under "@" keys.
C16_LeafElements ==
    (rstage # "event" /\ rparsed.kind = "some") =>
        \A node \in Subtrees(revent.markup.root) :
            node.kids = <<>> =>
                LET j == element_to_json(node)
                IN  IF trim(node.text) # <<>>
                    THEN j = JStr(trim(node.text))
                    ELSE /\ j.kind = "obj"
                         /\ DOMAIN j.v =
                               {<<"@">> \o node.attrs[i].name : i \in DOMAIN node.attrs}
                         /\ \A i \in DOMAIN node.attrs :
                               j.v[<<"@">> \o node.attrs[i].name] =
                                   JStr(node.attrs[i].value)

\* An element with attributes a="1" b="2" and no text became
\* {"@a":"1","@b":"2"}.
C16_Witness ==
    /\ rstage = "parsed"
    /\ revent.markup.root = AttrRootDoc
    /\ rparsed = Some(JObj([k \in {<<"@", "a">>, <<"@", "b">>} |->
                               IF k = <<"@", "a">> THEN JStr(<<"1">>) ELSE JStr(<<"2">>)]))

\* C17: ResetEvent is called only right after an EvtNext call that returned
\* no event (or failed): a worker about to reset, or back at its wait after
\* some EvtNext call, has a last call that returned nothing; the signal
\* becomes unsignaled only by the step of such a worker; and after the last
\* event of a batch the worker calls EvtNext again.
C17_ResetAfterEmptyDrain ==
    /\ [](\A w \in Workers :
            /\ wpc[w] = "reset" => returned[w] = 0
            /\ (wpc[w] = "wait" /\ requests[w] # {}) => returned[w] = 0)
    /\ [][\A w \in Workers :
            /\ (signal'[w] = "reset" /\ signal[w] # "reset") =>
                  wpc[w] = "reset" /\ returned[w] = 0
            /\ (wpc'[w] = "reset" /\ wpc[w] # "reset") =>
                  /\ wpc[w] = "next"
                  /\ delivered'[w] = delivered[w]
                  /\ queue'[w] = queue[w]
            /\ (wpc[w] = "close" /\ wpc'[w] \notin {"close", "render"}) =>
                  wpc'[w] = "next"]_vars

\* A worker is back at its wait, the signal reset, after two EvtNext calls
\* that returned events and one that returned none.
C17_Witness ==
    \E w \in Workers :
        /\ wpc[w] = "wait"
        /\ signal[w] = "reset"
        /\ batch[w] # <<>>
        /\ Len(delivered[w]) > Len(batch[w])

\* C18: no lost wake-up: no worker is blocked at its wait, the signal
\* unsignaled, while the OS holds an event for its subscription.
C18_NoLostWakeup ==
    \A w \in Workers :
        ~(wpc[w] = "wait" /\ signal[w] = "reset" /\ queue[w] # <<>>)

\* C19: every EvtNext call asks for at most 10 events with a timeout of
\* zero, and a worker at the call is never held there.
C19_ZeroWaitDrain ==
    \A w \in Workers :
        /\ \A r \in requests[w] : r.size <= 10 /\ r.timeout = Millis(0)
        /\ (Running /\ wpc[w] = "next") => ENABLED EvtNext(w)

\* C20: every event handle EvtNext returned to a worker is passed to
\* EvtClose exactly once: none twice, and a worker that returned, or that is
\* through its batches, has closed each handle it was given, in order.
C20_HandlesReleasedOnce ==
    \A w \in Workers :
        /\ NoDuplicates(closed[w])
        /\ (wpc[w] = "done" \/ Drained(w)) =>
              /\ open_events[w] = {}
              /\ closed[w] = [i \in 1..Len(delivered[w]) |-> delivered[w][i].id]

\* C21: a worker that returned holds neither its subscription nor its wait
\* signal: the subscription is not open and the event object CreateEventW
\* gave it (signaled or not) no longer exists.
C21_SubscriptionAndSignalReleased ==
    \A w \in Workers :
        wpc[w] = "done" =>
            /\ sub[w] # "open"
            /\ signal[w] \notin {"set", "reset"}

\* Worker w is between taking the output's guard and dropping it.
Writing(w) == wpc[w] \in {"write_text", "write_nl", "flush"}

\* C22: a worker holds the output mutex exactly while it writes and flushes
\* one record: the holder is at the text, the terminator or the flush of the
\* event it is handling, of which the output holds nothing older; a worker
\* at its wait, at EvtNext, rendering, closing an event or returned does not
\* hold it; and a worker waiting for the mutex can take it whenever no
\* worker is writing, whatever the others are blocked on or ended with.
C22_MutexOnlyWhileWriting ==
    /\ mutex # 0 => mutex \in Workers /\ Writing(mutex)
    /\ \A w \in Workers :
          /\ wpc[w] \in {"none", "start", "subscribe", "elevate", "exit", "wait",
                         "next", "render", "lock", "close", "reset", "done"}
                => mutex # w
          /\ (mutex = w /\ wpc[w] = "write_text") =>
                \A i \in DOMAIN sink :
                    ~(sink[i].w = w /\ sink[i].id = batch[w][bi[w]].id)
          /\ ( /\ Running
               /\ wpc[w] = "lock"
               /\ \A v \in Workers : ~Writing(v) )
             => ENABLED Lock(w)

\* A worker ended by a write failure and another worker holds the mutex.
C22_Witness ==
    \E v, w \in Workers :
        /\ v # w
        /\ WriteFailed(w)
        /\ wpc[w] = "done"
        /\ mutex = v

\* The OS formatting call for key k of the event succeeded with a text that
\* is not empty.
FormatsToText(event, k) ==
    /\ event.fmt[k].size > 0
    /\ event.fmt[k].ok
    /\ event.fmt[k].text # <<>>

\* C23: after enrich_metadata, for each of Keywords, Level, Task and Opcode:
\* a key absent from the transcoded record is still absent; a key present
\* holds the formatted text when the formatting call succeeded with a text
\* that is not empty, and else exactly the transcoded value.
C23_FieldReplacedOnlyByText ==
    (rstage = "enriched" /\ rparsed.v.kind = "obj") =>
        \A i \in DOMAIN EnrichKeys :
            LET k == EnrichKeys[i]
                before == rparsed.v.v
                after == rvalue.v.v
            IN  IF k \notin DOMAIN before THEN k \notin DOMAIN after
                ELSE /\ k \in DOMAIN after
                     /\ after[k] = IF FormatsToText(revent, k)
                                   THEN JStr(revent.fmt[k].text)
                                   ELSE before[k]

\* The transcoded record val has a string at Provider/@Name.
HasProviderName(val) ==
    /\ val.kind = "obj"
    /\ <<"Provider">> \in DOMAIN val.v
    /\ val.v[<<"Provider">>].kind = "obj"
    /\ <<"@", "Name">> \in DOMAIN val.v[<<"Provider">>].v
    /\ val.v[<<"Provider">>].v[<<"@", "Name">>].kind = "str"

\* The provider's metadata opens and EvtFormatMessage gives the event's
\* message.
MessageFormats(event) == event.metaOk /\ event.msg.size > 0 /\ event.msg.ok

\* C24: render_event on an event whose markup transcodes always ends with a
\* record; the record has at top level the key Message with the formatted
\* event message when the transcoded record has a string at Provider/@Name,
\* the provider metadata opens and the message formatting succeeds; in every
\* other case the message step changes nothing: the key Message is not
\* added, and a Message the markup brought keeps its value.
C24_MessageIff ==
    (rstage = "done" /\ rparsed.kind = "some") =>
        LET before == rparsed.v
            after == rvalue.v
        IN  /\ rvalue.kind = "some"
            /\ IF HasProviderName(before) /\ MessageFormats(revent)
               THEN /\ after.kind = "obj"
                    /\ <<"Message">> \in DOMAIN after.v
                    /\ after.v[<<"Message">>] = JStr(revent.msg.text)
               ELSE IF before.kind = "obj"
                    THEN /\ after.kind = "obj"
                         /\ <<"Message">> \in DOMAIN after.v
                               <=> <<"Message">> \in DOMAIN before.v
                         /\ <<"Message">> \in DOMAIN before.v =>
                               after.v[<<"Message">>] = before.v[<<"Message">>]
                    ELSE after = before

\* A record without Message got the formatted event message.
C24_Witness ==
    /\ rstage = "done"
    /\ rparsed.kind = "some"
    /\ rparsed.v.kind = "obj"
    /\ <<"Message">> \notin DOMAIN rparsed.v.v
    /\ rvalue.v.kind = "obj"
    /\ <<"Message">> \in DOMAIN rvalue.v.v
    /\ rvalue.v.v[<<"Message">>] = JStr(<<"friendly", "Message">>)

\* C25: monitor has one worker per entry of valid_channels; it spawns them
\* in order, and every one is spawned before the first join; it joins them
\* in order, each join returning only when that worker ended; so it returns
\* Ok(()) only when every worker ended, and it has not returned while a
\* subscribed worker has not ended.
C25_SpawnAllThenJoinAll ==
    /\ Workers # {} => Workers = 1..Len(valid_channels)
    /\ mpc = "spawn" =>
          \A w \in Workers : (w < mi) <=> (wpc[w] # "none")
    /\ mpc = "join" =>
          \A w \in Workers :
              /\ wpc[w] # "none"
              /\ w < mi => wpc[w] = "done"
    /\ (mpc = "ret" /\ Workers # {}) =>
          /\ mres = "ok"
          /\ \A w \in Workers : wpc[w] = "done"
    /\ (\E w \in Workers : sub[w] = "open" /\ wpc[w] # "done") => mpc # "ret"

\* monitor returned after its two workers ended, one of them by a write
\* failure after it had written a record.
C25_Witness ==
    /\ mpc = "ret"
    /\ Len(valid_channels) = 2
    /\ \E w \in Workers :
          /\ WriteFailed(w)
          /\ \E i \in DOMAIN sink : sink[i].w = w /\ sink[i].kind = "nl"

\* C26: monitor's result follows from resolution alone: it is the
\* enumeration error only when the enumeration failed (nothing was resolved,
\* no worker exists), "No valid channels" only when resolution ended with an
\* empty list, and when monitor returned with a list that is not empty the
\* result is Ok(()) whatever the workers' results; monitor returns only
\* with one of these; and once every worker ended the join loop can go on.
C26_ResultFromResolution ==
    /\ mres \in {"none", "ok", "err_enum", "err_novalid"}
    /\ mres = "err_enum" =>
          mpc = "ret" /\ available = <<>> /\ valid_channels = <<>> /\ Workers = {}
    /\ mres = "err_novalid" =>
          mpc = "ret" /\ Resolved /\ valid_channels = <<>> /\ Workers = {}
    /\ mres = "ok" => mpc = "ret" /\ valid_channels # <<>>
    /\ mpc = "ret" =>
          /\ mres # "none"
          /\ valid_channels # <<>> => mres = "ok"
    /\ ( /\ Running
         /\ mpc = "join"
         /\ \A w \in Workers : wpc[w] = "done" )
       => ENABLED MonitorJoin

\* monitor returned Ok(()) although both its workers failed to subscribe.
C26_Witness ==
    /\ mpc = "ret"
    /\ mres = "ok"
    /\ Len(valid_channels) = 2
    /\ \A w \in Workers : wres[w] = "err" /\ subres[w] = "other"

====
